---------------------------- MODULE Spec2Model ----------------------------
(***************************************************************************)
(* A model of diskaudit.py, the one-shot disk and database usage audit.    *)
(*                                                                         *)
(* The script declares its interpreter on line 1 (python3), so the model   *)
(* follows Python 3: subprocess.check_output returns bytes, bytes never    *)
(* compare equal to str, str + bytes raises TypeError, map() is a          *)
(* one-shot iterator, "/" on numbers is true division and IOError is       *)
(* OSError (CalledProcessError is not one).                                *)
(*                                                                         *)
(* Byte counts are Python numbers of arbitrary size.  They are kept as     *)
(* five base-1024 limbs, least significant first, the top limb unbounded,  *)
(* so that 1024^4 and the sums above 2^31 are exact.  Every count of the   *)
(* model is below 2^53, where Python's float arithmetic is exact too.      *)
(***************************************************************************)
EXTENDS Integers, Sequences, FiniteSets

VARIABLES
    pc,              \* position of the script
    argv,            \* sys.argv[1:]
    host,            \* host (line 221), 0 while unset
    vendor,          \* vendor (line 225), "" while unset
    install_list,    \* the items of install_list
    is_map,          \* install_list is a map object (line 229), not a list
    map_pos,         \* how many items of the map object have been consumed
    idx,             \* position of the running for loop
    install_stats,   \* install_stats_dict / install_stats
    sum_dictionary,  \* sum_dictionary
    out,             \* the lines printed to standard output, in order
    err,             \* the unhandled exception that ended the run
    raw,             \* per install: what du answered for staging and for the DB
    fmt_in,          \* the argument of a lone fix_format call
    fmt_out          \* its result

vars == <<pc, argv, host, vendor, install_list, is_map, map_pos, idx,
          install_stats, sum_dictionary, out, err, raw, fmt_in, fmt_out>>

---------------------------------------------------------------------------
(* Bounds of the model *)

\* longest command line (number of installs given)
MaxArgs == 2
\* largest top limb of a lone fix_format argument (units of 1024^4)
MaxTop == 2

(* Program constants *)

KiB == 1024
MiB == 1048576
GiB == 1073741824
\* 1099511627776 = 1024^4, beyond a machine integer: written in limbs
TiB == <<0, 0, 0, 0, 1>>
EmptyDirSize == 4096

---------------------------------------------------------------------------
(* Python numbers: base-1024 limbs *)

Zero == <<0, 0, 0, 0, 0>>

\* the limbs of a natural number below 2^31
NumOf(k) ==
    <<k % 1024, (k \div 1024) % 1024, (k \div 1048576) % 1024,
      k \div 1073741824, 0>>

RECURSIVE LtFrom(_, _, _)
LtFrom(a, b, j) ==
    IF j = 0 THEN FALSE
    ELSE IF a[j] # b[j] THEN a[j] < b[j]
    ELSE LtFrom(a, b, j - 1)

\* a < b and a >= b on limbs
Lt(a, b) == LtFrom(a, b, 5)
Geq(a, b) == ~Lt(a, b)

\* a + b
Add(a, b) ==
    LET s1 == a[1] + b[1]
        s2 == a[2] + b[2] + (s1 \div 1024)
        s3 == a[3] + b[3] + (s2 \div 1024)
        s4 == a[4] + b[4] + (s3 \div 1024)
    IN  <<s1 % 1024, s2 % 1024, s3 % 1024, s4 % 1024,
          a[5] + b[5] + (s4 \div 1024)>>

\* Python values: a number carries its type, a text its type (str or bytes)
PyInt(n) == [t |-> "int", n |-> n]
PyFloat(n) == [t |-> "float", n |-> n]
\* a text is either the decimal numeral of a number or a literal word
Numeral(n) == [lit |-> "", num |-> n]
Word(w) == [lit |-> w, num |-> Zero]
PyStr(x) == [t |-> "str", s |-> x]
PyBytes(x) == [t |-> "bytes", s |-> x]

\* x == y on two texts: a bytes object never equals a str
PyEq(x, y) == x.t = y.t /\ x.s = y.s

\* x + y on numbers: the result is a float as soon as one operand is
PyAdd(x, y) ==
    [t |-> IF x.t = "float" \/ y.t = "float" THEN "float" ELSE "int",
     n |-> Add(x.n, y.n)]

---------------------------------------------------------------------------
(* fix_format, lines 60-78 *)

DigitChar(d) == <<"0", "1", "2", "3", "4", "5", "6", "7", "8", "9">>[d + 1]

RECURSIVE Digits(_)
\* str(n) of a natural number
Digits(n) ==
    IF n < 10 THEN <<DigitChar(n)>>
    ELSE Digits(n \div 10) \o <<DigitChar(n % 10)>>

\* a quotient: integer part (limbs) and base-1024 fraction digits, the most
\* significant first
AsQuotient(n) == [ip |-> n, fr |-> <<>>]

\* q / 1024: the lowest limb of the integer part becomes the first
\* fraction digit
Div1024(q) ==
    [ip |-> <<q.ip[2], q.ip[3], q.ip[4], q.ip[5], 0>>,
     fr |-> <<q.ip[1]>> \o q.fr]

RECURSIVE Scale100(_)
\* 100 * (a fraction): c the integer part, r the fraction digits left
Scale100(fr) ==
    IF fr = <<>> THEN [c |-> 0, r |-> <<>>]
    ELSE LET rest == Scale100(Tail(fr))
             t == Head(fr) * 100 + rest.c
         IN  [c |-> t \div 1024, r |-> <<t % 1024>> \o rest.r]

\* '{0:.2f}'.format(q): the nearest multiple of 0.01, a tie going to the
\* even one
Format2f(q) ==
    LET s == Scale100(q.fr)
        above == /\ s.r # <<>>
                 /\ \/ s.r[1] > 512
                    \/ s.r[1] = 512 /\ \E j \in 2..Len(s.r) : s.r[j] # 0
        tie == /\ s.r # <<>>
               /\ s.r[1] = 512
               /\ \A j \in 2..Len(s.r) : s.r[j] = 0
        up == IF above \/ (tie /\ s.c % 2 = 1) THEN 1 ELSE 0
        h == (q.ip[1] + 1024 * q.ip[2] + 1048576 * q.ip[3]) * 100 + s.c + up
    IN  Digits(h \div 100) \o <<".">>
            \o <<DigitChar((h % 100) \div 10), DigitChar(h % 10)>>

\* '{}'.format(value) of a number below 1024
FormatPlain(value) ==
    IF value.t = "float" THEN Digits(value.n[1]) \o <<".", "0">>
    ELSE Digits(value.n[1])

\* fix_format with every threshold compared by <=: 1024 is still bytes
fix_format_le(value) ==
    IF ~Lt(NumOf(KiB), value.n) THEN FormatPlain(value) \o <<"B">>
    ELSE IF ~Lt(NumOf(MiB), value.n)
    THEN Format2f(Div1024(AsQuotient(value.n))) \o <<"K">>
    ELSE IF ~Lt(NumOf(GiB), value.n)
    THEN Format2f(Div1024(Div1024(AsQuotient(value.n)))) \o <<"M">>
    ELSE IF ~Lt(TiB, value.n)
    THEN Format2f(Div1024(Div1024(Div1024(AsQuotient(value.n))))) \o <<"G">>
    ELSE Format2f(Div1024(Div1024(Div1024(Div1024(AsQuotient(value.n))))))
             \o <<"T">>

fix_format(value) ==
    IF Lt(value.n, NumOf(KiB)) THEN FormatPlain(value) \o <<"B">>
    ELSE IF Geq(value.n, NumOf(KiB)) /\ Lt(value.n, NumOf(MiB))
    THEN Format2f(Div1024(AsQuotient(value.n))) \o <<"K">>
    ELSE IF Geq(value.n, NumOf(MiB)) /\ Lt(value.n, NumOf(GiB))
    THEN Format2f(Div1024(Div1024(AsQuotient(value.n)))) \o <<"M">>
    ELSE IF Geq(value.n, NumOf(GiB)) /\ Lt(value.n, TiB)
    THEN Format2f(Div1024(Div1024(Div1024(AsQuotient(value.n))))) \o <<"G">>
    ELSE Format2f(Div1024(Div1024(Div1024(Div1024(AsQuotient(value.n))))))
             \o <<"T">>

---------------------------------------------------------------------------
(* The world the script runs in: what its collaborators answer *)

Installs == {"a", "b"}
Vendors == {"amazon", "google", "azure"}
Hosts == {7}

\* what du prints, in bytes, for a live directory (2 GiB), for a staging
\* directory (empty, and one byte more) and for a database directory
LiveSizes == {<<0, 0, 0, 2, 0>>}
StagingSizes == {NumOf(EmptyDirSize), NumOf(EmptyDirSize + 1)}
DatabaseSizes == {NumOf(MiB)}
\* what the SUM(data_length + index_length) query prints when not NULL, for
\* a production schema (nothing, 100 MiB) and for a staging schema
QuerySizes == {Zero, NumOf(104857600)}
SnapshotSizes == {NumOf(MiB)}
\* what SELECT @@GLOBAL.innodb_buffer_pool_size prints
PoolSizes == {NumOf(134217728)}

\* subprocess.check_output: the bytes the command printed, or an exception
Printed(x) == [ok |-> TRUE, exc |-> "", val |-> PyBytes(x)]
Failed(e) == [ok |-> FALSE, exc |-> e, val |-> PyBytes(Word(""))]

\* du: not run because the path is absent, cannot be started (OSError),
\* exits non-zero (CalledProcessError), or prints a size
DuOutcomes(sizes) ==
    {Failed("OSError"), Failed("CalledProcessError")}
        \cup {Printed(Numeral(n)) : n \in sizes}
\* os.path.exists is false, or du runs
PathOutcomes(sizes) == {Failed("absent")} \cup DuOutcomes(sizes)
\* wp db query: exits non-zero, prints NULL, or prints a number
QueryOutcomes(sizes) ==
    {Failed("CalledProcessError"), Printed(Word("NULL"))}
        \cup {Printed(Numeral(n)) : n \in sizes}
\* wpe.php option-get <install> mu: exits non-zero, or prints 1 or 0
MuOutcomes ==
    {Failed("CalledProcessError"), Printed(Numeral(NumOf(1))),
     Printed(Numeral(Zero))}

RECURSIVE SeqsUpTo(_, _)
\* the sequences over S of length at most n
SeqsUpTo(S, n) ==
    IF n = 0 THEN {<<>>}
    ELSE LET shorter == SeqsUpTo(S, n - 1)
         IN  shorter \cup {Append(q, x) : q \in shorter, x \in S}

NoDuplicates(q) == \A j, k \in 1..Len(q) : q[j] = q[k] => j = k

InstallNames == {PyStr(Word(w)) : w \in Installs}
\* every command line of at most MaxArgs installs, repeats included
CommandLines == SeqsUpTo(InstallNames, MaxArgs)
\* what sites_on_cluster may return: distinct installs
SiteLists == {q \in SeqsUpTo(InstallNames, MaxArgs) : NoDuplicates(q)}

---------------------------------------------------------------------------
(* Results of the script's functions: a value, or an exception raised *)

Ret(v) == [ok |-> TRUE, val |-> v, exc |-> "", what |-> ""]
Raise(e, w) == [ok |-> FALSE, val |-> PyInt(Zero), exc |-> e, what |-> w]

\* float(x) and int(x) of a text: ValueError unless it is a numeral
ToFloat(x) ==
    IF x.s.lit = "" THEN Ret(PyFloat(x.s.num))
    ELSE Raise("ValueError", x.s.lit)
ToInt(x) ==
    IF x.s.lit = "" THEN Ret(PyInt(x.s.num))
    ELSE Raise("ValueError", x.s.lit)

NoErr == [exc |-> "", fn |-> "", what |-> ""]
Unhandled(r, fn) == [exc |-> r.exc, fn |-> fn, what |-> r.what]

(* check_multisite, lines 115-120 *)
check_multisite(install, mu) ==
    IF ~mu.ok THEN [ok |-> FALSE, val |-> "", exc |-> mu.exc, what |-> ""]
    ELSE [ok |-> TRUE,
          val |-> IF PyEq(mu.val, PyStr(Numeral(NumOf(1))))
                  THEN "Yes" ELSE "No",
          exc |-> "", what |-> ""]

(* get_prod_du, lines 133-146 *)
get_prod_du(install, du) ==
    IF install.t # "str" THEN Raise("TypeError", "str + bytes")
    ELSE IF du.exc = "absent" THEN Ret(PyInt(Zero))
    ELSE IF du.exc = "OSError" THEN Ret(PyInt(Zero))
    ELSE IF ~du.ok THEN Raise(du.exc, "du")
    ELSE ToFloat(du.val)

\* get_prod_db_du that never takes the Google branch
get_prod_db_du_never(install, du) == Ret(PyInt(Zero))

(* get_prod_db_du, lines 149-156 *)
get_prod_db_du(install, du) ==
    IF vendor = "google"
    THEN IF install.t # "str" THEN Raise("TypeError", "str + bytes")
         ELSE IF ~du.ok THEN Raise(du.exc, "du")
         ELSE ToFloat(du.val)
    ELSE Ret(PyInt(Zero))

(* get_prod_db_data with run_cli_query, lines 159-169 and 81-91 *)
get_prod_db_data(install, q) ==
    IF ~q.ok THEN Raise(q.exc, "wp db query")
    ELSE ToFloat(q.val)

\* get_stage_du without the 4096 rule
get_stage_du_raw(install, du) ==
    IF du.exc = "absent" THEN Ret(PyInt(Zero))
    ELSE IF du.exc = "OSError" THEN Ret(PyInt(Zero))
    ELSE IF ~du.ok THEN Raise(du.exc, "du")
    ELSE ToFloat(du.val)

(* get_stage_du, lines 172-187 *)
get_stage_du(install, du) ==
    IF du.exc = "absent" THEN Ret(PyInt(Zero))
    ELSE LET stage_du ==
                 IF du.exc = "OSError" THEN Ret(PyInt(Zero))
                 ELSE IF ~du.ok THEN Raise(du.exc, "du")
                 ELSE ToFloat(du.val)
         IN  IF stage_du.ok /\ stage_du.val.n = NumOf(EmptyDirSize)
             THEN Ret(PyInt(Zero))
             ELSE stage_du

(* get_stage_db_data with run_cli_query, lines 190-202 and 81-91 *)
get_stage_db_data(install, q) ==
    IF ~q.ok THEN Raise(q.exc, "wp db query")
    ELSE IF PyEq(q.val, PyStr(Word("NULL"))) THEN Ret(PyInt(Zero))
    ELSE ToInt(q.val)

(* get_innodb_buffer_size with run_query, lines 123-125 and 94-103 *)
get_innodb_buffer_size(q) ==
    IF ~q.ok THEN [ok |-> FALSE, val |-> <<>>, exc |-> q.exc, what |-> ""]
    ELSE LET ibp == ToInt(q.val)
         IN  IF ~ibp.ok
             THEN [ok |-> FALSE, val |-> <<>>, exc |-> ibp.exc,
                   what |-> ibp.what]
             ELSE [ok |-> TRUE, val |-> fix_format(ibp.val), exc |-> "",
                   what |-> ""]

---------------------------------------------------------------------------
(* The printed lines.  A line is its kind and its cells, each cell the     *)
(* characters or the word printed; colour codes and padding are left out.  *)

Line(kind, cells) == [kind |-> kind, cells |-> cells]
Name(install) == <<install.s.lit>>

\* the lines that make up the report
ReportKinds ==
    {"pod", "pool", "header", "separator", "row", "closing", "totals",
     "disk", "db"}

ZeroTotals ==
    [prod_du_ttl |-> PyInt(Zero), prod_db_du_ttl |-> PyInt(Zero),
     prod_db_ttl |-> PyInt(Zero), stage_du_ttl |-> PyInt(Zero),
     stage_db_ttl |-> PyInt(Zero)]

\* d[k] = v on a dictionary
SetItem(d, k, v) ==
    [x \in DOMAIN d \cup {k} |-> IF x = k THEN v ELSE d[x]]

\* the for loops: a list is walked from its start, a map object from
\* where the last loop left it, each item encoded as it is taken
LoopPos == IF is_map THEN map_pos + 1 ELSE idx
LoopHasNext == LoopPos <= Len(install_list)
LoopItem ==
    IF is_map THEN PyBytes(install_list[LoopPos].s)
    ELSE install_list[LoopPos]
LoopAdvance ==
    IF is_map THEN map_pos' = map_pos + 1 /\ idx' = idx
    ELSE idx' = idx + 1 /\ map_pos' = map_pos
LoopRestart == idx' = 1 /\ map_pos' = map_pos

Abort(e) == pc' = "aborted" /\ err' = e

---------------------------------------------------------------------------
(* The script, top to bottom *)

Init ==
    /\ pc = "preflight"
    /\ argv \in CommandLines
    /\ host = 0
    /\ vendor = ""
    /\ install_list = <<>>
    /\ is_map = FALSE
    /\ map_pos = 0
    /\ idx = 1
    /\ install_stats = <<>>
    /\ sum_dictionary = ZeroTotals
    /\ out = <<>>
    /\ err = NoErr
    /\ raw = <<>>
    /\ fmt_in = PyInt(Zero)
    /\ fmt_out = <<>>

(* lines 40-53: the sanity checks *)
Preflight ==
    /\ pc = "preflight"
    /\ \E memory_ok, cwd_ok, is_root \in BOOLEAN :
        /\ out' = IF memory_ok
                  THEN Append(out, Line("sanity", <<>>)) ELSE out
        /\ IF ~memory_ok \/ ~cwd_ok
           THEN pc' = "exited" /\ err' = err
           ELSE IF is_root
           THEN Abort([exc |-> "TypeError", fn |-> "sys.exit", what |-> ""])
           ELSE pc' = "host" /\ err' = err
    /\ UNCHANGED <<argv, host, vendor, install_list, is_map, map_pos, idx,
                   install_stats, sum_dictionary, raw, fmt_in, fmt_out>>

(* line 221: host = int(get_host()) *)
ResolveHost ==
    /\ pc = "host"
    /\ \/ /\ \E h \in Hosts : host' = h
          /\ pc' = "cluster"
          /\ err' = err
       \/ /\ Abort([exc |-> "IOError", fn |-> "get_host", what |-> ""])
          /\ host' = host
    /\ UNCHANGED <<argv, vendor, install_list, is_map, map_pos, idx,
                   install_stats, sum_dictionary, out, raw, fmt_in, fmt_out>>

(* lines 222-225: the inventory API and the vendor *)
ClusterInfo ==
    /\ pc = "cluster"
    /\ \/ /\ \E v \in Vendors : vendor' = v
          /\ pc' = "list"
          /\ err' = err
       \/ /\ Abort([exc |-> "ApiError", fn |-> "cluster_info", what |-> ""])
          /\ vendor' = vendor
    /\ UNCHANGED <<argv, host, install_list, is_map, map_pos, idx,
                   install_stats, sum_dictionary, out, raw, fmt_in, fmt_out>>

(* lines 226-233: install_list *)
BuildInstallList ==
    /\ pc = "list"
    /\ IF Len(argv) = 0
       THEN \/ /\ \E sites \in SiteLists : install_list' = sites
               /\ is_map' = TRUE
               /\ pc' = "begin"
               /\ err' = err
            \/ /\ Abort([exc |-> "ApiError", fn |-> "sites_on_cluster",
                         what |-> ""])
               /\ UNCHANGED <<install_list, is_map>>
       ELSE /\ install_list' = argv
            /\ is_map' = FALSE
            /\ pc' = "begin"
            /\ err' = err
    /\ UNCHANGED <<argv, host, vendor, map_pos, idx, install_stats,
                   sum_dictionary, out, raw, fmt_in, fmt_out>>

(* lines 234-246: the Amazon branch begins *)
AmazonBegin ==
    /\ pc = "begin"
    /\ vendor = "amazon"
    /\ out' = out \o <<Line("banner", <<>>), Line("banner", <<>>)>>
    /\ sum_dictionary' = ZeroTotals
    /\ pc' = "collect"
    /\ LoopRestart
    /\ UNCHANGED <<argv, host, vendor, install_list, is_map, install_stats,
                   err, raw, fmt_in, fmt_out>>

(* lines 303-314: the branch of every other vendor begins *)
OtherBegin ==
    /\ pc = "begin"
    /\ vendor # "amazon"
    /\ out' = out \o <<Line("banner", <<>>), Line("banner", <<>>)>>
    /\ sum_dictionary' = ZeroTotals
    /\ pc' = "collect"
    /\ LoopRestart
    /\ UNCHANGED <<argv, host, vendor, install_list, is_map, install_stats,
                   err, raw, fmt_in, fmt_out>>

\* an exception leaves create_install_stats_dictionary and ends the run
CollectAbort(r, fn) ==
    /\ Abort(Unhandled(r, fn))
    /\ UNCHANGED <<install_stats, raw>>

\* du on the database directory runs on a Google cluster only
DbDuOutcomes ==
    IF vendor = "google" THEN DuOutcomes(DatabaseSizes)
    ELSE {Failed("not run")}

(* lines 205-215, one turn of the loop of create_install_stats_dictionary: *)
(* the six calls in the order of the dictionary display, the first         *)
(* exception ending the run                                                *)
CollectInstall ==
    /\ pc = "collect"
    /\ LoopHasNext
    /\ LET install == LoopItem IN
       \E mu \in MuOutcomes :
       LET Multisite == check_multisite(install, mu) IN
       IF ~Multisite.ok THEN CollectAbort(Multisite, "check_multisite") ELSE
       \E pdu \in PathOutcomes(LiveSizes) :
       LET Production == get_prod_du(install, pdu) IN
       IF ~Production.ok THEN CollectAbort(Production, "get_prod_du") ELSE
       \E ddu \in DbDuOutcomes :
       LET wp_disk == get_prod_db_du(install, ddu) IN
       IF ~wp_disk.ok THEN CollectAbort(wp_disk, "get_prod_db_du") ELSE
       \E pq \in QueryOutcomes(QuerySizes) :
       LET wp_data == get_prod_db_data(install, pq) IN
       IF ~wp_data.ok THEN CollectAbort(wp_data, "get_prod_db_data") ELSE
       \E sdu \in PathOutcomes(StagingSizes) :
       LET Staging == get_stage_du(install, sdu) IN
       IF ~Staging.ok THEN CollectAbort(Staging, "get_stage_du") ELSE
       \E sq \in QueryOutcomes(SnapshotSizes) :
       LET ss_data == get_stage_db_data(install, sq) IN
       IF ~ss_data.ok THEN CollectAbort(ss_data, "get_stage_db_data") ELSE
           /\ install_stats' =
                  SetItem(install_stats, install,
                          [Multisite |-> Multisite.val,
                           Production |-> Production.val,
                           wp_disk |-> wp_disk.val,
                           wp_data |-> wp_data.val,
                           Staging |-> Staging.val,
                           ss_data |-> ss_data.val])
           /\ raw' = SetItem(raw, install, [Staging |-> sdu, wp_disk |-> ddu])
           /\ pc' = pc
           /\ err' = err
    /\ LoopAdvance
    /\ UNCHANGED <<argv, host, vendor, install_list, is_map, sum_dictionary,
                   out, fmt_in, fmt_out>>

(* line 215, then line 247 or 315: the dictionary is returned *)
CollectDone ==
    /\ pc = "collect"
    /\ ~LoopHasNext
    /\ pc' = "pod"
    /\ UNCHANGED <<argv, host, vendor, install_list, is_map, map_pos, idx,
                   install_stats, sum_dictionary, out, err, raw, fmt_in,
                   fmt_out>>

(* line 248: the pod line *)
AmazonPod ==
    /\ pc = "pod"
    /\ vendor = "amazon"
    /\ out' = Append(out, Line("pod", <<Digits(host)>>))
    /\ pc' = "pool"
    /\ UNCHANGED <<argv, host, vendor, install_list, is_map, map_pos, idx,
                   install_stats, sum_dictionary, err, raw, fmt_in, fmt_out>>

(* line 316 *)
OtherPod ==
    /\ pc = "pod"
    /\ vendor # "amazon"
    /\ out' = Append(out, Line("pod", <<Digits(host)>>))
    /\ pc' = "pool"
    /\ UNCHANGED <<argv, host, vendor, install_list, is_map, map_pos, idx,
                   install_stats, sum_dictionary, err, raw, fmt_in, fmt_out>>

\* the outcomes of the buffer pool query
PoolOutcomes ==
    {Failed("CalledProcessError")} \cup {Printed(Numeral(n)) : n \in PoolSizes}

(* lines 249-250: the buffer pool line, its argument computed first *)
AmazonPool ==
    /\ pc = "pool"
    /\ vendor = "amazon"
    /\ \E q \in PoolOutcomes :
        LET size == get_innodb_buffer_size(q)
        IN  IF size.ok
            THEN /\ out' = Append(out, Line("pool", <<size.val>>))
                 /\ pc' = "header"
                 /\ err' = err
            ELSE /\ Abort(Unhandled(size, "get_innodb_buffer_size"))
                 /\ out' = out
    /\ UNCHANGED <<argv, host, vendor, install_list, is_map, map_pos, idx,
                   install_stats, sum_dictionary, raw, fmt_in, fmt_out>>

(* lines 317-318 *)
OtherPool ==
    /\ pc = "pool"
    /\ vendor # "amazon"
    /\ \E q \in PoolOutcomes :
        LET size == get_innodb_buffer_size(q)
        IN  IF size.ok
            THEN /\ out' = Append(out, Line("pool", <<size.val>>))
                 /\ pc' = "header"
                 /\ err' = err
            ELSE /\ Abort(Unhandled(size, "get_innodb_buffer_size"))
                 /\ out' = out
    /\ UNCHANGED <<argv, host, vendor, install_list, is_map, map_pos, idx,
                   install_stats, sum_dictionary, raw, fmt_in, fmt_out>>

AmazonColumns ==
    <<<<"Install">>, <<"Multisite">>, <<"Production">>, <<"Prod DB">>,
      <<"Staging">>, <<"Stage DB">>>>
OtherColumns ==
    <<<<"Install">>, <<"Multisite">>, <<"Production">>, <<"Prod DB DU">>,
      <<"Prod DB">>, <<"Staging">>, <<"Staging DB">>>>

(* lines 252-268: header and separator, six columns *)
AmazonHeader ==
    /\ pc = "header"
    /\ vendor = "amazon"
    /\ out' = out \o <<Line("header", AmazonColumns), Line("separator", <<>>)>>
    /\ pc' = "rows"
    /\ LoopRestart
    /\ UNCHANGED <<argv, host, vendor, install_list, is_map, install_stats,
                   sum_dictionary, err, raw, fmt_in, fmt_out>>

(* lines 320-339: header and separator, seven columns *)
OtherHeader ==
    /\ pc = "header"
    /\ vendor # "amazon"
    /\ out' = out \o <<Line("header", OtherColumns), Line("separator", <<>>)>>
    /\ pc' = "rows"
    /\ LoopRestart
    /\ UNCHANGED <<argv, host, vendor, install_list, is_map, install_stats,
                   sum_dictionary, err, raw, fmt_in, fmt_out>>

\* one turn of the row loop that takes the last item left instead of the next
AmazonRowBackwards ==
    /\ pc = "rows"
    /\ vendor = "amazon"
    /\ LoopHasNext
    /\ LET install == install_list[Len(install_list) + 1 - LoopPos]
           stats == install_stats[install]
       IN  /\ out' = Append(out, Line("row",
                        <<Name(install), <<stats.Multisite>>,
                          fix_format(stats.Production),
                          fix_format(stats.wp_data),
                          fix_format(stats.Staging),
                          fix_format(stats.ss_data)>>))
           /\ sum_dictionary' =
                [sum_dictionary EXCEPT
                   !.prod_du_ttl = PyAdd(@, stats.Production),
                   !.prod_db_ttl = PyAdd(@, stats.wp_data),
                   !.stage_du_ttl = PyAdd(@, stats.Staging),
                   !.stage_db_ttl = PyAdd(@, stats.ss_data)]
    /\ LoopAdvance
    /\ UNCHANGED <<pc, argv, host, vendor, install_list, is_map,
                   install_stats, err, raw, fmt_in, fmt_out>>

(* lines 269-283: one turn of the row loop: the row, then the totals *)
AmazonRow ==
    /\ pc = "rows"
    /\ vendor = "amazon"
    /\ LoopHasNext
    /\ LET install == LoopItem
           stats == install_stats[install]
       IN  /\ out' = Append(out, Line("row",
                        <<Name(install), <<stats.Multisite>>,
                          fix_format(stats.Production),
                          fix_format(stats.wp_data),
                          fix_format(stats.Staging),
                          fix_format(stats.ss_data)>>))
           /\ sum_dictionary' =
                [sum_dictionary EXCEPT
                   !.prod_du_ttl = PyAdd(@, stats.Production),
                   !.prod_db_ttl = PyAdd(@, stats.wp_data),
                   !.stage_du_ttl = PyAdd(@, stats.Staging),
                   !.stage_db_ttl = PyAdd(@, stats.ss_data)]
    /\ LoopAdvance
    /\ UNCHANGED <<pc, argv, host, vendor, install_list, is_map,
                   install_stats, err, raw, fmt_in, fmt_out>>

(* lines 340-356 *)
OtherRow ==
    /\ pc = "rows"
    /\ vendor # "amazon"
    /\ LoopHasNext
    /\ LET install == LoopItem
           stats == install_stats[install]
       IN  /\ out' = Append(out, Line("row",
                        <<Name(install), <<stats.Multisite>>,
                          fix_format(stats.Production),
                          fix_format(stats.wp_disk),
                          fix_format(stats.wp_data),
                          fix_format(stats.Staging),
                          fix_format(stats.ss_data)>>))
           /\ sum_dictionary' =
                [sum_dictionary EXCEPT
                   !.prod_du_ttl = PyAdd(@, stats.Production),
                   !.prod_db_du_ttl = PyAdd(@, stats.wp_disk),
                   !.prod_db_ttl = PyAdd(@, stats.wp_data),
                   !.stage_du_ttl = PyAdd(@, stats.Staging),
                   !.stage_db_ttl = PyAdd(@, stats.ss_data)]
    /\ LoopAdvance
    /\ UNCHANGED <<pc, argv, host, vendor, install_list, is_map,
                   install_stats, err, raw, fmt_in, fmt_out>>

(* lines 284-302: closing separator, totals row, the two summary lines *)
AmazonFooter ==
    /\ pc = "rows"
    /\ vendor = "amazon"
    /\ ~LoopHasNext
    /\ out' = out \o
         <<Line("closing", <<>>),
           Line("totals",
                <<<<"Totals:">>,
                  fix_format(sum_dictionary.prod_du_ttl),
                  fix_format(sum_dictionary.prod_db_ttl),
                  fix_format(sum_dictionary.stage_du_ttl),
                  fix_format(sum_dictionary.stage_db_ttl)>>),
           Line("disk",
                <<fix_format(PyAdd(sum_dictionary.prod_du_ttl,
                                   sum_dictionary.stage_du_ttl))>>),
           Line("db",
                <<fix_format(PyAdd(sum_dictionary.prod_db_ttl,
                                   sum_dictionary.stage_db_ttl))>>)>>
    /\ pc' = "done"
    /\ UNCHANGED <<argv, host, vendor, install_list, is_map, map_pos, idx,
                   install_stats, sum_dictionary, err, raw, fmt_in, fmt_out>>

(* lines 357-379 *)
OtherFooter ==
    /\ pc = "rows"
    /\ vendor # "amazon"
    /\ ~LoopHasNext
    /\ out' = out \o
         <<Line("closing", <<>>),
           Line("totals",
                <<<<"Totals:">>,
                  fix_format(sum_dictionary.prod_du_ttl),
                  fix_format(sum_dictionary.prod_db_du_ttl),
                  fix_format(sum_dictionary.prod_db_ttl),
                  fix_format(sum_dictionary.stage_du_ttl),
                  fix_format(sum_dictionary.stage_db_ttl)>>),
           Line("disk",
                <<fix_format(PyAdd(PyAdd(sum_dictionary.prod_du_ttl,
                                         sum_dictionary.prod_db_du_ttl),
                                   sum_dictionary.stage_du_ttl))>>),
           Line("db",
                <<fix_format(PyAdd(sum_dictionary.prod_db_ttl,
                                   sum_dictionary.stage_db_ttl))>>)>>
    /\ pc' = "done"
    /\ UNCHANGED <<argv, host, vendor, install_list, is_map, map_pos, idx,
                   install_stats, sum_dictionary, err, raw, fmt_in, fmt_out>>

Next ==
    \/ Preflight
    \/ ResolveHost
    \/ ClusterInfo
    \/ BuildInstallList
    \/ AmazonBegin
    \/ OtherBegin
    \/ CollectInstall
    \/ CollectDone
    \/ AmazonPod
    \/ OtherPod
    \/ AmazonPool
    \/ OtherPool
    \/ AmazonHeader
    \/ OtherHeader
    \/ AmazonRow
    \/ OtherRow
    \/ AmazonFooter
    \/ OtherFooter

Spec == Init /\ [][Next]_vars

---------------------------------------------------------------------------
(* fix_format on its own: one call on an argument drawn from the samples *)

\* limb values around the rounding cases: 128 and 384 are the ties of .2f
LimbSamples == {0, 1, 128, 384, 512, 1023}

FormatInputs ==
    {<<d1, d2, d3, d4, d5>> :
        d1 \in LimbSamples, d2 \in LimbSamples, d3 \in LimbSamples,
        d4 \in LimbSamples, d5 \in 0..MaxTop}

FormatInit ==
    /\ pc = "format"
    /\ fmt_in \in {PyInt(n) : n \in FormatInputs}
                      \cup {PyFloat(n) : n \in FormatInputs}
    /\ fmt_out = <<>>
    /\ argv = <<>>
    /\ host = 0
    /\ vendor = ""
    /\ install_list = <<>>
    /\ is_map = FALSE
    /\ map_pos = 0
    /\ idx = 1
    /\ install_stats = <<>>
    /\ sum_dictionary = ZeroTotals
    /\ out = <<>>
    /\ err = NoErr
    /\ raw = <<>>

Format ==
    /\ pc = "format"
    /\ fmt_out' = fix_format(fmt_in)
    /\ pc' = "formatted"
    /\ UNCHANGED <<argv, host, vendor, install_list, is_map, map_pos, idx,
                   install_stats, sum_dictionary, out, err, raw, fmt_in>>

FormatNext == Format

FormatSpec == FormatInit /\ [][FormatNext]_vars

---------------------------------------------------------------------------
(* Arithmetic used to state the properties *)

\* the number v * m, for a small m
MulSmall(v, m) ==
    LET t1 == v[1] * m
        t2 == v[2] * m + (t1 \div 1024)
        t3 == v[3] * m + (t2 \div 1024)
        t4 == v[4] * m + (t3 \div 1024)
    IN  <<t1 % 1024, t2 % 1024, t3 % 1024, t4 % 1024,
          v[5] * m + (t4 \div 1024)>>

RECURSIVE ShiftUp(_, _)
\* the number v * 1024^k
ShiftUp(v, k) ==
    IF k = 0 THEN v
    ELSE ShiftUp(<<0, v[1], v[2], v[3], v[4] + 1024 * v[5]>>, k - 1)

Leq(a, b) == ~Lt(b, a)

IsDigit(c) == c \in {"0", "1", "2", "3", "4", "5", "6", "7", "8", "9"}
DigitValue(c) == CHOOSE d \in 0..9 : DigitChar(d) = c

RECURSIVE ParseNat(_)
\* the number a sequence of digit characters writes
ParseNat(cs) ==
    IF cs = <<>> THEN 0
    ELSE ParseNat(SubSeq(cs, 1, Len(cs) - 1)) * 10 + DigitValue(cs[Len(cs)])

\* a natural number written without a sign, a point or a leading zero
IsNumeral(cs) ==
    /\ cs # <<>>
    /\ \A j \in 1..Len(cs) : IsDigit(cs[j])
    /\ Len(cs) > 1 => cs[1] # "0"

\* the unit a count belongs to: the highest limb that is not zero
UnitIndex(v) ==
    IF v[5] > 0 THEN 4 ELSE IF v[4] > 0 THEN 3 ELSE IF v[3] > 0 THEN 2
    ELSE IF v[2] > 0 THEN 1 ELSE 0
UnitLetter(k) == <<"B", "K", "M", "G", "T">>[k + 1]

\* s is v / 1024^k written with two decimals: digits, a point, two digits,
\* the number written being a nearest multiple of 0.01
IsScaled(s, v, k) ==
    /\ Len(s) >= 4
    /\ s[Len(s) - 2] = "."
    /\ IsNumeral(SubSeq(s, 1, Len(s) - 3))
    /\ IsDigit(s[Len(s) - 1]) /\ IsDigit(s[Len(s)])
    /\ LET h == ParseNat(SubSeq(s, 1, Len(s) - 3)) * 100
                  + DigitValue(s[Len(s) - 1]) * 10 + DigitValue(s[Len(s)])
           written == ShiftUp(NumOf(h), k)
           exact == MulSmall(v, 100)
           half == ShiftUp(NumOf(512), k - 1)
       IN  /\ Leq(written, Add(exact, half))
           /\ Leq(exact, Add(written, half))

\* what the claim says fix_format returns for the integer v
IsFormatOf(s, v) ==
    LET k == UnitIndex(v)
        number == SubSeq(s, 1, Len(s) - 1)
    IN  /\ s # <<>>
        /\ s[Len(s)] = UnitLetter(k)
        /\ IF k = 0
           THEN IsNumeral(number) /\ ParseNat(number) = v[1]
           ELSE IsScaled(number, v, k)

\* the rows printed so far, and the sum of a field over the install list
Rows == SelectSeq(out, LAMBDA l : l.kind = "row")
LinesOf(kind) == SelectSeq(out, LAMBDA l : l.kind = kind)

RECURSIVE ListSum(_, _)
\* the sum of a field of the records of install_list[1..j], one addend per
\* position of the list
ListSum(j, field) ==
    IF j = 0 THEN Zero
    ELSE Add(ListSum(j - 1, field), install_stats[install_list[j]][field].n)

RECURSIVE RecordSum(_, _)
\* the sum of a field over the records of a set of installs, one addend per
\* install
RecordSum(keys, field) ==
    IF keys = {} THEN Zero
    ELSE LET k == CHOOSE x \in keys : TRUE
         IN  Add(install_stats[k][field].n, RecordSum(keys \ {k}, field))

\* the install list as the caller gave it
Listing == IF Len(argv) > 0 THEN argv ELSE install_list

---------------------------------------------------------------------------
(* The claims *)

\* C1: for every non-negative integer v, fix_format returns v as a plain
\* integer followed by B when v < 1024, and otherwise v / 1024^k with exactly
\* two decimals followed by the unit letter (K, M, G, and T from 1024^4 on),
\* a threshold itself belonging to the next unit: 1023 -> 1023B,
\* 1024 -> 1.00K, 1048576 -> 1.00M, 1073741824 -> 1.00G.
C1_FixFormat ==
    (pc = "formatted" /\ fmt_in.t = "int") =>
        /\ IsFormatOf(fmt_out, fmt_in.n)
        /\ fmt_in.n = NumOf(1023) => fmt_out = <<"1", "0", "2", "3", "B">>
        /\ fmt_in.n = NumOf(1024) => fmt_out = <<"1", ".", "0", "0", "K">>
        /\ fmt_in.n = NumOf(1048576) => fmt_out = <<"1", ".", "0", "0", "M">>
        /\ fmt_in.n = NumOf(1073741824)
               => fmt_out = <<"1", ".", "0", "0", "G">>

C1_Witness ==
    /\ pc = "formatted"
    /\ fmt_in = PyInt(NumOf(1048576))
    /\ fmt_out = <<"1", ".", "0", "0", "M">>

\* C2: at the end of a completed run every cluster total equals the sum of
\* its field over the per-install records, each install counted exactly once.
C2_TotalsAreSumOverRecords ==
    pc = "done" =>
        /\ sum_dictionary.prod_du_ttl.n
               = RecordSum(DOMAIN install_stats, "Production")
        /\ sum_dictionary.prod_db_du_ttl.n
               = RecordSum(DOMAIN install_stats, "wp_disk")
        /\ sum_dictionary.prod_db_ttl.n
               = RecordSum(DOMAIN install_stats, "wp_data")
        /\ sum_dictionary.stage_du_ttl.n
               = RecordSum(DOMAIN install_stats, "Staging")
        /\ sum_dictionary.stage_db_ttl.n
               = RecordSum(DOMAIN install_stats, "ss_data")

\* the column of the staging disk usage in a row
StagingColumn == IF vendor = "amazon" THEN 5 ELSE 6

\* C3: on a db-remote cluster (amazon) the production DB disk usage is 0 for
\* every install, its total stays 0 and no column or summary line carries
\* it; on a db-colocated cluster (google) it is measured for every install
\* and is part of the rows, of the totals row and of the combined disk usage.
C3_VendorGating ==
    /\ vendor = "amazon" =>
        /\ \A k \in DOMAIN install_stats :
               install_stats[k].wp_disk = PyInt(Zero)
        /\ sum_dictionary.prod_db_du_ttl = PyInt(Zero)
        /\ \A j \in 1..Len(out) :
            /\ out[j].kind = "header" =>
                   /\ Len(out[j].cells) = 6
                   /\ \A c \in 1..6 : out[j].cells[c] # <<"Prod DB DU">>
            /\ out[j].kind = "row" => Len(out[j].cells) = 6
            /\ out[j].kind = "totals" => Len(out[j].cells) = 5
            /\ out[j].kind = "disk" =>
                   out[j].cells[1]
                       = fix_format(PyAdd(sum_dictionary.prod_du_ttl,
                                          sum_dictionary.stage_du_ttl))
    /\ vendor = "google" =>
        /\ \A k \in DOMAIN install_stats :
               /\ raw[k].wp_disk.ok
               /\ install_stats[k].wp_disk
                      = PyFloat(raw[k].wp_disk.val.s.num)
        /\ \A j \in 1..Len(out) :
               out[j].kind = "header" => out[j].cells[4] = <<"Prod DB DU">>
        /\ \A j \in 1..Len(Rows) :
               Rows[j].cells[4]
                   = fix_format(install_stats[install_list[j]].wp_disk)
        /\ pc = "done" =>
            /\ sum_dictionary.prod_db_du_ttl.n
                   = ListSum(Len(install_list), "wp_disk")
            /\ LinesOf("totals")[1].cells[3]
                   = fix_format(sum_dictionary.prod_db_du_ttl)
            /\ LinesOf("disk")[1].cells[1]
                   = fix_format(PyAdd(PyAdd(sum_dictionary.prod_du_ttl,
                                            sum_dictionary.prod_db_du_ttl),
                                      sum_dictionary.stage_du_ttl))

C3_Witness ==
    /\ pc = "done"
    /\ vendor = "google"
    /\ Len(install_list) = 2
    /\ install_list[1] # install_list[2]
    /\ sum_dictionary.prod_db_du_ttl = PyFloat(NumOf(2097152))
    /\ LinesOf("totals")[1].cells[3] = <<"2", ".", "0", "0", "M">>

C5_StagingNormalised ==
    /\ \A k \in DOMAIN install_stats :
           raw[k].Staging.ok =>
               IF raw[k].Staging.val.s.num = NumOf(4096)
               THEN install_stats[k].Staging = PyInt(Zero)
               ELSE install_stats[k].Staging
                        = PyFloat(raw[k].Staging.val.s.num)
    /\ \A j \in 1..Len(Rows) :
           Rows[j].cells[StagingColumn]
               = fix_format(install_stats[install_list[j]].Staging)
    /\ pc = "done" =>
           sum_dictionary.stage_du_ttl.n
               = ListSum(Len(install_list), "Staging")

C5_Witness ==
    /\ pc = "done"
    /\ Len(install_list) = 2
    /\ raw[install_list[1]].Staging = Printed(Numeral(NumOf(4096)))
    /\ raw[install_list[2]].Staging = Printed(Numeral(NumOf(4097)))
    /\ Rows[1].cells[StagingColumn] = <<"0", "B">>
    /\ Rows[2].cells[StagingColumn] = <<"4", ".", "0", "0", "K">>
    /\ sum_dictionary.stage_du_ttl.n = NumOf(4097)

\* C6: for the production and the staging directory alike, a failure of the
\* size measurement of an existing path gives 0 and is never propagated:
\* no run ends on an exception of du.
C6_DiskFailuresAbsorbed ==
    ~(/\ pc = "aborted"
      /\ err.fn \in {"get_prod_du", "get_stage_du"}
      /\ err.what = "du")

\* C7: a NULL result of the staging schema query gives staging_db_data = 0
\* and raises nothing: no run ends in get_stage_db_data on a NULL.
C7_NullStagingIsZero ==
    ~(/\ pc = "aborted"
      /\ err.fn = "get_stage_db_data"
      /\ err.what = "NULL")

\* C8: a NULL result of the production schema query gives
\* production_db_data = 0 and the run is not aborted.
C8_NullProductionIsZero ==
    ~(/\ pc = "aborted"
      /\ err.fn = "get_prod_db_data"
      /\ err.what = "NULL")

\* C9: a run that a collaborator's failure aborts has printed no part of the
\* report: no pod line, buffer pool line, header, row, totals or summary.
C9_NoPartialReport ==
    pc = "aborted" => \A j \in 1..Len(out) : out[j].kind \notin ReportKinds

\* C10: when the multisite lookup fails the install's Multisite field is
\* "No" and the run is not aborted: no run ends in check_multisite.
C10_MultisiteDefaultsToNo ==
    ~(pc = "aborted" /\ err.fn = "check_multisite")

===========================================================================
